---- MODULE Spec2Model ----
(***************************************************************************)
(* Model of the detection pipeline of 1_explore.ipynb: letterbox_image /   *)
(* transform, postprocess, draw_boxes and _draw_bounding_box_on_image.     *)
(*                                                                         *)
(* Python's `/` on integers and `int * float` are IEEE-754 binary64        *)
(* operations (round to nearest, ties to even).  They are modelled exactly *)
(* on the 53-bit significand, because int() makes the rounding visible     *)
(* (int(23 * (416 / 23)) is 415).                                          *)
(***************************************************************************)
EXTENDS Integers, Sequences, FiniteSets, TLC

\* ------------------------------------------------------------------ bounds
MaxDim == 24          \* image widths and heights are drawn from 0..MaxDim
MaxTarget == 3        \* small letterbox targets are drawn from 1..MaxTarget

\* ------------------------------------------------------- program constants
CanvasSize == 416     \* model_image_size, and the divisor of the scaling factors

\* ------------------------------------------------- binary64 arithmetic
\* A positive double is [m |-> <<l0, l1, l2, l3, l4>>, e |-> k]: the 53-bit
\* significand in limbs of 13 bits (l0 is the leading bit, 1), with value
\* (l0*2^52 + l1*2^39 + l2*2^26 + l3*2^13 + l4) * 2^k; zero is FZero.
LimbBits == 13
Limb == 8192
MantBits == 1 + 4 * LimbBits

FZero == [m |-> <<>>, e |-> 0]

RECURSIVE Pow2(_)
Pow2(n) == IF n = 0 THEN 1 ELSE 2 * Pow2(n - 1)

\* the number of bits of n >= 0
RECURSIVE BitLen(_)
BitLen(n) == IF n = 0 THEN 0 ELSE 1 + BitLen(n \div 2)

\* limbs + 1 on the four low limbs; the carry out of them is added to l0
LimbsInc(m) ==
    LET c4 == IF m[5] + 1 = Limb THEN 1 ELSE 0
        c3 == IF m[4] + c4 = Limb THEN 1 ELSE 0
        c2 == IF m[3] + c3 = Limb THEN 1 ELSE 0
        c1 == IF m[2] + c2 = Limb THEN 1 ELSE 0
    IN <<m[1] + c1, (m[2] + c2) % Limb, (m[3] + c3) % Limb,
         (m[4] + c4) % Limb, (m[5] + 1) % Limb>>

\* Round a 53-bit significand, given the discarded tail against one half unit
\* in the last place (1 above, 0 exactly half, -1 below): to nearest, ties to
\* even.  A carry out of the significand renormalises to 2^52 * 2^(e+1).
RoundNearestEven(kept, e, tail) ==
    LET up == tail = 1 \/ (tail = 0 /\ kept[5] % 2 = 1)
        inc == LimbsInc(kept)
    IN IF ~up THEN [m |-> kept, e |-> e]
       ELSE IF inc[1] = 2 THEN [m |-> <<1, 0, 0, 0, 0>>, e |-> e + 1]
            ELSE [m |-> inc, e |-> e]

\* the largest j with d * 2^j <= a   (a >= d >= 1)
RECURSIVE ShiftDown(_, _)
ShiftDown(a, d) == IF 2 * d <= a THEN 1 + ShiftDown(a, 2 * d) ELSE 0

\* the smallest j with a * 2^j >= d  (1 <= a)
RECURSIVE ShiftUp(_, _)
ShiftUp(a, d) == IF a >= d THEN 0 ELSE 1 + ShiftUp(2 * a, d)

\* a / b for integers a >= 0, b >= 1, correctly rounded: long division of
\* n / d in [1, 2), 13 quotient bits at a time
FDiv(a, b) ==
    IF a = 0 THEN FZero
    ELSE LET up == ShiftUp(a, b)
             n  == a * Pow2(up)
             dn == ShiftDown(n, b)
             d  == b * Pow2(dn)
             r0 == n - d
             l1 == (r0 * Limb) \div d
             r1 == (r0 * Limb) % d
             l2 == (r1 * Limb) \div d
             r2 == (r1 * Limb) % d
             l3 == (r2 * Limb) \div d
             r3 == (r2 * Limb) % d
             l4 == (r3 * Limb) \div d
             r4 == (r3 * Limb) % d
             tail == IF 2 * r4 > d THEN 1 ELSE IF 2 * r4 = d THEN 0 ELSE -1
         IN RoundNearestEven(<<1, l1, l2, l3, l4>>, dn - up - (MantBits - 1), tail)

\* k * x for an integer 0 <= k < 2^13 (converted exactly) and a double x:
\* the exact product limb by limb, then rounded back to 53 bits
FMulInt(k, x) ==
    IF k = 0 \/ x = FZero THEN FZero
    ELSE LET t4 == k * x.m[5]
             t3 == k * x.m[4] + t4 \div Limb
             t2 == k * x.m[3] + t3 \div Limb
             t1 == k * x.m[2] + t2 \div Limb
             t0 == k * x.m[1] + t1 \div Limb
             p  == <<t0, t1 % Limb, t2 % Limb, t3 % Limb, t4 % Limb>>
             \* t0 has 1 + drop bits: shift the product right by drop
             drop == BitLen(t0) - 1
             lo == Pow2(drop)
             hi == Pow2(LimbBits - drop)
             kept == <<p[1] \div lo,
                       (p[1] % lo) * hi + p[2] \div lo,
                       (p[2] % lo) * hi + p[3] \div lo,
                       (p[3] % lo) * hi + p[4] \div lo,
                       (p[4] % lo) * hi + p[5] \div lo>>
             rest == p[5] % lo
             tail == IF drop = 0 THEN -1
                     ELSE IF 2 * rest > lo THEN 1
                     ELSE IF 2 * rest = lo THEN 0 ELSE -1
         IN RoundNearestEven(kept, x.e + drop, tail)

\* x < y for doubles x, y >= 0
RECURSIVE LimbsLess(_, _)
LimbsLess(a, b) ==
    IF a = <<>> THEN FALSE
    ELSE IF a[1] # b[1] THEN a[1] < b[1]
    ELSE LimbsLess(Tail(a), Tail(b))

FLess(x, y) ==
    IF y = FZero THEN FALSE
    ELSE IF x = FZero THEN TRUE
    ELSE IF x.e # y.e THEN x.e < y.e
    ELSE LimbsLess(x.m, y.m)

\* the larger of a and b
FMinPicksLarger(a, b) == IF FLess(b, a) THEN a ELSE b

\* Python's min(a, b): b if b < a, else a
FMin(a, b) == IF FLess(b, a) THEN b ELSE a

\* the integer whose limbs are m
RECURSIVE LimbsToNat(_)
LimbsToNat(m) ==
    IF m = <<>> THEN 0
    ELSE Limb * LimbsToNat(SubSeq(m, 1, Len(m) - 1)) + m[Len(m)]

\* int(x) for a double 0 <= x < 2^31 with a fraction part: truncation, i.e.
\* the significand shifted right by -x.e bits
FTrunc(x) ==
    IF x = FZero \/ -x.e >= MantBits THEN 0
    ELSE LET q == (-x.e) \div LimbBits
             s == (-x.e) % LimbBits
             last == 5 - q
         IN LimbsToNat(SubSeq(x.m, 1, last - 1)) * Pow2(LimbBits - s)
            + x.m[last] \div Pow2(s)

\* --------------------------------------------------------------- state
VARIABLES
    lb,     \* one call of transform / letterbox_image: arguments and outcome
    dec,    \* one call of postprocess: arguments and outcome
    rnd     \* one call of draw_boxes / _draw_bounding_box_on_image

vars == <<lb, dec, rnd>>

Idle == [pc |-> "idle"]

\* ------------------------------------------------------ letterbox_image
ImageDims == 0..MaxDim
TargetDims == 1..MaxTarget

\* the body of letterbox_image for an image of size (iw, ih) and size = (w, h):
\* the arguments it hands to resize, Image.new and paste, or the exception of
\* the division
letterbox_image(iw, ih, w, h) ==
    IF iw = 0 \/ ih = 0
    THEN [error |-> "ZeroDivisionError", resized |-> <<>>, canvas |-> <<>>,
          paste |-> <<>>]
    ELSE LET scale == FMin(FDiv(w, iw), FDiv(h, ih))
             nw == FTrunc(FMulInt(iw, scale))
             nh == FTrunc(FMulInt(ih, scale))
         IN [error |-> "none", resized |-> <<nw, nh>>, canvas |-> <<w, h>>,
             paste |-> <<(w - nw) \div 2, (h - nh) \div 2>>]

\* transform: letterbox to model_image_size reversed, then HWC -> CHW and a
\* leading batch axis; the shape of the returned array
transform(iw, ih) ==
    LET boxed == letterbox_image(iw, ih, CanvasSize, CanvasSize)
    IN IF boxed.error # "none" THEN boxed @@ [shape |-> <<>>]
       ELSE boxed @@ [shape |-> <<1, 3, boxed.canvas[2], boxed.canvas[1]>>]

LbCalls ==
    {[fn |-> "transform", iw |-> iw, ih |-> ih, w |-> CanvasSize, h |-> CanvasSize] :
        iw \in ImageDims, ih \in ImageDims}
    \cup
    {[fn |-> "letterbox_image", iw |-> iw, ih |-> ih, w |-> w, h |-> h] :
        iw \in ImageDims, ih \in ImageDims, w \in TargetDims, h \in TargetDims}

InitLetterbox ==
    /\ \E c \in LbCalls : lb = [pc |-> "called", call |-> c]
    /\ dec = Idle
    /\ rnd = Idle

Transform ==
    /\ lb.pc = "called"
    /\ lb.call.fn = "transform"
    /\ LET r == transform(lb.call.iw, lb.call.ih)
       IN lb' = [pc |-> IF r.error = "none" THEN "returned" ELSE "raised",
                 call |-> lb.call, out |-> r]
    /\ UNCHANGED <<dec, rnd>>

LetterboxImage ==
    /\ lb.pc = "called"
    /\ lb.call.fn = "letterbox_image"
    /\ LET r == letterbox_image(lb.call.iw, lb.call.ih, lb.call.w, lb.call.h)
       IN lb' = [pc |-> IF r.error = "none" THEN "returned" ELSE "raised",
                 call |-> lb.call, out |-> r]
    /\ UNCHANGED <<dec, rnd>>

NextLetterbox == Transform \/ LetterboxImage

SpecLetterbox == InitLetterbox /\ [][NextLetterbox]_vars

LbDone == lb.pc \in {"returned", "raised"}

\* the exact scale min(w/iw, h/ih) of a call, as a fraction <<num, den>>
ExactScale(c) == IF c.w * c.ih <= c.h * c.iw THEN <<c.w, c.iw>> ELSE <<c.h, c.ih>>

\* x * scale - 1 < n <= x * scale, in exact arithmetic
FloorOf(n, x, sc) == x * sc[1] - sc[2] < n * sc[2] /\ n * sc[2] <= x * sc[1]

\* C3: for any image with iw > 0 and ih > 0 and any target (w, h), letterbox
\* returns a canvas of exactly (w, h) and the resized dimensions are the floors
\* of iw*scale and ih*scale, scale = min(w/iw, h/ih):
\* iw*scale - 1 < nw <= iw*scale and ih*scale - 1 < nh <= ih*scale.
C3_LetterboxFloor ==
    (LbDone /\ lb.call.iw > 0 /\ lb.call.ih > 0) =>
        /\ lb.pc = "returned"
        /\ lb.out.canvas = <<lb.call.w, lb.call.h>>
        /\ FloorOf(lb.out.resized[1], lb.call.iw, ExactScale(lb.call))
        /\ FloorOf(lb.out.resized[2], lb.call.ih, ExactScale(lb.call))

\* C4: letterbox on an image with iw = 0 or ih = 0 ends in an InvalidImage
\* error raised by a check made before the scale is computed, not by the
\* division by zero; no canvas is returned.
C4_ZeroAreaIsInvalidImage ==
    (LbDone /\ (lb.call.iw = 0 \/ lb.call.ih = 0)) =>
        /\ lb.pc = "raised"
        /\ lb.out.error = "InvalidImage"
        /\ lb.out.canvas = <<>>

\* the geometry part shared by C9 and its amendment: offsets, containment and
\* padding balance of the pasted image
PasteInside(c, o) ==
    LET nw == o.resized[1]
        nh == o.resized[2]
        ox == o.paste[1]
        oy == o.paste[2]
    IN /\ nw <= c.w /\ nh <= c.h
       /\ ox = (c.w - nw) \div 2 /\ oy = (c.h - nh) \div 2
       /\ ox >= 0 /\ oy >= 0
       /\ ox + nw <= c.w /\ oy + nh <= c.h
       /\ (c.w - nw - ox) - ox \in {0, 1}
       /\ (c.h - nh - oy) - oy \in {0, 1}

NumBatch == 1         \* raw_scores and raw_boxes hold one batch
NumClasses == 80      \* the label table and the class axis of raw_scores
NumCand == 2          \* candidates per batch (bound)
MaxSel == 2           \* raw_class_indices[0] holds at most MaxSel triples (bound)

\* the label table imported from classes.py: entry c is the c-th label
classes == [c \in 0..(NumClasses - 1) |-> <<"label", c>>]

\* the tensors of one inference: every entry differs from every other
\* (scores in thousandths, boxes as (ymin, xmin, ymax, xmax))
raw_scores ==
    [t \in (0..(NumBatch - 1)) \X (0..(NumClasses - 1)) \X (0..(NumCand - 1)) |->
        4 * (t[2] * NumCand + t[3]) + 1]
raw_boxes ==
    [t \in (0..(NumBatch - 1)) \X (0..(NumCand - 1)) |->
        <<10 + t[2], 20 + t[2], 110 + t[2], 120 + t[2]>>]

\* Python / numpy indexing of an axis of length n by integer i: negative
\* indices count from the end, anything outside [-n, n) raises IndexError
\* (-1 stands for the raise)
AxisIndex(i, n) ==
    IF 0 <= i /\ i < n THEN i
    ELSE IF -n <= i /\ i < 0 THEN i + n
    ELSE -1

InRange(t) ==
    /\ 0 <= t[1] /\ t[1] < NumBatch
    /\ 0 <= t[2] /\ t[2] < NumClasses
    /\ 0 <= t[3] /\ t[3] < NumCand

\* one iteration of the loop of postprocess on the lists built so far
PostprocessStepReversed(acc, raw_indices) ==
    LET b == AxisIndex(raw_indices[1], NumBatch)
        c == AxisIndex(raw_indices[2], NumClasses)
        k == AxisIndex(raw_indices[3], NumCand)
    IN IF c = -1 THEN [acc EXCEPT !.error = "IndexError", !.at = "classes"]
       ELSE IF b = -1 \/ k = -1
            THEN [acc EXCEPT !.error = "IndexError", !.at = "raw_scores"]
       ELSE [acc EXCEPT !.detected_classes = <<classes[c]>> \o @,
                        !.scores = <<raw_scores[<<b, c, k>>]>> \o @,
                        !.boxes = <<raw_boxes[<<b, k>>]>> \o @]

PostprocessStep(acc, raw_indices) ==
    LET b == AxisIndex(raw_indices[1], NumBatch)
        c == AxisIndex(raw_indices[2], NumClasses)
        k == AxisIndex(raw_indices[3], NumCand)
    IN IF c = -1 THEN [acc EXCEPT !.error = "IndexError", !.at = "classes"]
       ELSE IF b = -1 \/ k = -1
            THEN [acc EXCEPT !.error = "IndexError", !.at = "raw_scores"]
       ELSE [acc EXCEPT !.detected_classes = Append(@, classes[c]),
                        !.scores = Append(@, raw_scores[<<b, c, k>>]),
                        !.boxes = Append(@, raw_boxes[<<b, k>>])]

RECURSIVE PostprocessLoop(_, _)
PostprocessLoop(acc, rest) ==
    IF rest = <<>> \/ acc.error # "none" THEN acc
    ELSE PostprocessLoop(PostprocessStep(acc, Head(rest)), Tail(rest))

\* postprocess on raw_class_indices[0] = sel: the three lists it returns, or
\* the IndexError that ends it (its lists are locals and are lost with it)
postprocess(sel) ==
    LET r == PostprocessLoop([error |-> "none", at |-> "none", boxes |-> <<>>,
                              scores |-> <<>>, detected_classes |-> <<>>], sel)
    IN IF r.error = "none" THEN r
       ELSE [r EXCEPT !.boxes = <<>>, !.scores = <<>>, !.detected_classes = <<>>]

\* index triples: every in-range triple of a few classes, and triples with
\* one index out of range on either side
SampleClasses == {0, 3, NumClasses - 1}
ValidTriples == (0..(NumBatch - 1)) \X SampleClasses \X (0..(NumCand - 1))
BadTriples ==
    {<<b, 0, 0>> : b \in {-NumBatch - 1, -NumBatch, NumBatch}}
    \cup {<<0, c, 0>> : c \in {-NumClasses - 1, -NumClasses, -1, NumClasses, 999}}
    \cup {<<0, 0, k>> : k \in {-NumCand - 1, -NumCand, -1, NumCand}}
Triples == ValidTriples \cup BadTriples

SeqsUpTo(S, n) == UNION {[1..m -> S] : m \in 0..n}

InitDecode ==
    /\ lb = Idle
    /\ \E sel \in SeqsUpTo(Triples, MaxSel) : dec = [pc |-> "called", sel |-> sel]
    /\ rnd = Idle

Postprocess ==
    /\ dec.pc = "called"
    /\ LET r == postprocess(dec.sel)
       IN dec' = [pc |-> IF r.error = "none" THEN "returned" ELSE "raised",
                  sel |-> dec.sel, out |-> r]
    /\ UNCHANGED <<lb, rnd>>

NextDecode == Postprocess

SpecDecode == InitDecode /\ [][NextDecode]_vars

DecDone == dec.pc \in {"returned", "raised"}

\* C1: for valid raw outputs (every triple in range) postprocess returns one
\* detection per entry of the selected indices, in the same order: the i-th
\* output is the label classes[c], the score raw_scores[b, c, k] and the box
\* raw_boxes[b, k] of the i-th triple (b, c, k).
C1_DecodeGathersInOrder ==
    (DecDone /\ \A i \in 1..Len(dec.sel) : InRange(dec.sel[i])) =>
        /\ dec.pc = "returned"
        /\ Len(dec.out.detected_classes) = Len(dec.sel)
        /\ Len(dec.out.scores) = Len(dec.sel)
        /\ Len(dec.out.boxes) = Len(dec.sel)
        /\ \A i \in 1..Len(dec.sel) :
              /\ dec.out.detected_classes[i] = classes[dec.sel[i][2]]
              /\ dec.out.scores[i] = raw_scores[dec.sel[i]]
              /\ dec.out.boxes[i] = raw_boxes[<<dec.sel[i][1], dec.sel[i][3]>>]

\* a returned decode of two different in-range triples given in descending
\* class order
C1_Witness ==
    /\ dec.pc = "returned"
    /\ Len(dec.sel) = 2
    /\ InRange(dec.sel[1]) /\ InRange(dec.sel[2])
    /\ dec.sel[1][2] > dec.sel[2][2]
    /\ dec.sel[1][3] # dec.sel[2][3]
    /\ Len(dec.out.boxes) = 2

\* C2: whenever the selected indices hold a triple with an index outside its
\* range (negative ones included), postprocess ends in an error and returns no
\* detections at all.
C2_OutOfRangeFailsFast ==
    (DecDone /\ \E i \in 1..Len(dec.sel) : ~InRange(dec.sel[i])) =>
        /\ dec.pc = "raised"
        /\ dec.out.error # "none"
        /\ dec.out.boxes = <<>> /\ dec.out.scores = <<>>
        /\ dec.out.detected_classes = <<>>

\* ------------------------------------------------- draw_boxes and helper
MaxDet == 2           \* draw_boxes is given at most MaxDet detections (bound)
MaxTextHeight == 12   \* the font's text height is drawn from 1..MaxTextHeight
MaxStrs == 2          \* display_str_list of a direct call holds 0..MaxStrs strings
Thickness == 4        \* the default stroke width

\* Pixel coordinates are fractions over Den: a coordinate x is held as the
\* integer x * Den.  Den is a multiple of 416 (the scaling factors are
\* im_width / 416 and im_height / 416) and of 20 (1.1 and 0.05 times a
\* height), so every value the code computes is held exactly.
Den == 5 * CanvasSize
Px(n) == n * Den

\* v * (dim / 416)
ScaleCoordUnscaled(v, dim) == v * Den

\* v * (dim / 416)
ScaleCoord(v, dim) == v * dim * (Den \div CanvasSize)

\* (1 + 2 * 0.05) * h
TotalHeight(h) == (11 * h * Den) \div 10

\* np.ceil(0.05 * h), in pixels
Margin(h) == (h + 19) \div 20

RECURSIVE SumSeq(_)
SumSeq(q) == IF q = <<>> THEN 0 ELSE Head(q) + SumSeq(Tail(q))

Reverse(q) == [i \in 1..Len(q) |-> q[Len(q) + 1 - i]]

\* font.getbbox(ds)[3]: the default font reports one height for every string
TextHeight(font, ds) == font.height

\* the loop over display_str_list[::-1]: one filled rectangle and one text per
\* string, then text_bottom -= text_height - 2 * margin
RECURSIVE DrawLabels(_, _, _, _, _, _)
DrawLabels(strs, text_bottom, left, color, font, acc) ==
    IF strs = <<>> THEN acc
    ELSE LET display_str == Head(strs)
             text_height == TextHeight(font, display_str)
             margin == Margin(text_height)
             op == [rect_left |-> left,
                    rect_top |-> text_bottom - Px(text_height) - 2 * Px(margin),
                    rect_width_of |-> display_str,
                    rect_bottom |-> text_bottom,
                    text_at |-> <<left + Px(margin),
                                  text_bottom - Px(text_height) - Px(margin)>>,
                    text |-> display_str,
                    fill |-> color]
         IN DrawLabels(Tail(strs),
                       text_bottom - (Px(text_height) - 2 * Px(margin)),
                       left, color, font, Append(acc, op))

\* _draw_bounding_box_on_image: the drawing operations it performs on an image
\* of size (im_width, im_height)
draw_bounding_box_on_image(im_width, im_height, ymin, xmin, ymax, xmax, color, font, thickness, display_str_list) ==
    LET left == ScaleCoord(xmin, im_width)
        right == ScaleCoord(xmax, im_width)
        top == ScaleCoord(ymin, im_height)
        bottom == ScaleCoord(ymax, im_height)
        display_str_heights ==
            [i \in 1..Len(display_str_list) |-> TextHeight(font, display_str_list[i])]
        total_display_str_height == TotalHeight(SumSeq(display_str_heights))
        text_bottom == IF top > total_display_str_height
                       THEN top
                       ELSE top + total_display_str_height
    IN [line |-> [points |-> <<<<left, top>>, <<left, bottom>>, <<right, bottom>>,
                               <<right, top>>, <<left, top>>>>,
                  width |-> thickness, fill |-> color],
        labels |-> DrawLabels(Reverse(display_str_list), text_bottom, left,
                              color, font, <<>>)]

\* int(100 * score) for a score of s thousandths.  The sample scores are such
\* that 100 * score is either exact in binary or at least 0.1 away from an
\* integer, so the float product truncates as the exact one does.
Percent(s) == (100 * s) \div 1000

\* colors[hash(class_) * 8 % len(colors)]: the palette entry is fixed by the
\* label (the string hash is fixed within one process)
ColorOf(class_) == <<"colors", <<"hash*8%len", class_>>>>

\* one iteration of the loop of draw_boxes
DrawBoxesBodyFirstBox(st) ==
    LET index == st.index + 1
        class_ == st.classes[index]
        box == st.boxes[1]
        display_str == [class_ |-> class_, pct |-> Percent(st.scores[index])]
        class_colors == IF class_ \in DOMAIN st.class_colors
                        THEN st.class_colors
                        ELSE st.class_colors @@ (class_ :> ColorOf(class_))
        color == class_colors[class_]
    IN [st EXCEPT !.pc = "loop",
                  !.index = index,
                  !.class_colors = class_colors,
                  !.drawn = Append(@, draw_bounding_box_on_image(
                                st.image[1], st.image[2], box[1], box[2], box[3],
                                box[4], color, st.font, Thickness, <<display_str>>))]

DrawBoxesBody(st) ==
    LET index == st.index + 1
        class_ == st.classes[index]
        box == st.boxes[index]
        display_str == [class_ |-> class_, pct |-> Percent(st.scores[index])]
        class_colors == IF class_ \in DOMAIN st.class_colors
                        THEN st.class_colors
                        ELSE st.class_colors @@ (class_ :> ColorOf(class_))
        color == class_colors[class_]
    IN [st EXCEPT !.pc = "loop",
                  !.index = index,
                  !.class_colors = class_colors,
                  !.drawn = Append(@, draw_bounding_box_on_image(
                                st.image[1], st.image[2], box[1], box[2], box[3],
                                box[4], color, st.font, Thickness, <<display_str>>))]

\* sample inputs
ImSizes == {CanvasSize \div 2, CanvasSize, 2 * CanvasSize}
BoxSamples == {<<10, 20, 110, 120>>, <<-8, -4, 420, 500>>, <<2, 3, 30, 40>>,
               <<6, 0, 416, 416>>, <<25, 7, 60, 90>>}
DetSamples ==
    {[class_ |-> classes[15], score |-> 876, box |-> <<10, 20, 110, 120>>],
     [class_ |-> classes[15], score |-> 500, box |-> <<2, 3, 30, 40>>],
     [class_ |-> classes[0], score |-> 1000, box |-> <<-8, -4, 420, 500>>],
     [class_ |-> classes[79], score |-> 124, box |-> <<6, 0, 416, 416>>],
     [class_ |-> classes[3], score |-> 5, box |-> <<25, 7, 60, 90>>]}
StrSamples == {"a", "b"}

RndCalls ==
    {[fn |-> "draw_boxes", image |-> <<W, H>>, font |-> [height |-> th],
      boxes |-> [i \in 1..Len(ds) |-> ds[i].box],
      scores |-> [i \in 1..Len(ds) |-> ds[i].score],
      classes |-> [i \in 1..Len(ds) |-> ds[i].class_],
      strs |-> <<>>] :
        W \in ImSizes, H \in ImSizes, th \in 1..MaxTextHeight,
        ds \in SeqsUpTo(DetSamples, MaxDet)}
    \cup
    {[fn |-> "_draw_bounding_box_on_image", image |-> <<W, H>>,
      font |-> [height |-> th], boxes |-> <<box>>, scores |-> <<>>,
      classes |-> <<>>, strs |-> strs] :
        W \in ImSizes, H \in ImSizes, th \in 1..MaxTextHeight,
        box \in BoxSamples, strs \in SeqsUpTo(StrSamples, MaxStrs)}

InitRender ==
    /\ lb = Idle
    /\ dec = Idle
    /\ \E c \in RndCalls :
          rnd = c @@ [pc |-> "called", index |-> 0, class_colors |-> <<>>,
                      drawn |-> <<>>]

\* for index, class_ in enumerate(classes): ...
DrawBoxesIter ==
    /\ rnd.fn = "draw_boxes"
    /\ rnd.pc \in {"called", "loop"}
    /\ rnd.index < Len(rnd.classes)
    /\ rnd' = DrawBoxesBody(rnd)
    /\ UNCHANGED <<lb, dec>>

\* return image_pil
DrawBoxesReturn ==
    /\ rnd.fn = "draw_boxes"
    /\ rnd.pc \in {"called", "loop"}
    /\ rnd.index = Len(rnd.classes)
    /\ rnd' = [rnd EXCEPT !.pc = "returned"]
    /\ UNCHANGED <<lb, dec>>

\* a direct call of _draw_bounding_box_on_image with a list of strings
DrawBoundingBoxOnImage ==
    /\ rnd.fn = "_draw_bounding_box_on_image"
    /\ rnd.pc = "called"
    /\ LET box == rnd.boxes[1]
       IN rnd' = [rnd EXCEPT !.pc = "returned",
                             !.drawn = <<draw_bounding_box_on_image(
                                 rnd.image[1], rnd.image[2], box[1], box[2],
                                 box[3], box[4], "red", rnd.font, Thickness,
                                 rnd.strs)>>]
    /\ UNCHANGED <<lb, dec>>

NextRender == DrawBoxesIter \/ DrawBoxesReturn \/ DrawBoundingBoxOnImage

SpecRender == InitRender /\ [][NextRender]_vars

\* the box a drawing step was given
BoxOf(j) == rnd.boxes[j]

\* the closed outline of box (ymin, xmin, ymax, xmax) on a W x H image, with
\* left = xmin*W/416, right = xmax*W/416, top = ymin*H/416, bottom = ymax*H/416
IsOutline(points, box, W, H) ==
    \E left, right \in {points[1][1], points[3][1]},
       top, bottom \in {points[1][2], points[3][2]} :
        /\ left * CanvasSize = box[2] * W * Den
        /\ right * CanvasSize = box[4] * W * Den
        /\ top * CanvasSize = box[1] * H * Den
        /\ bottom * CanvasSize = box[3] * H * Den
        /\ points = <<<<left, top>>, <<left, bottom>>, <<right, bottom>>,
                      <<right, top>>, <<left, top>>>>

\* C5: for every box (ymin, xmin, ymax, xmax) and every W x H image the
\* outline is drawn along (left,top)-(left,bottom)-(right,bottom)-(right,top)-
\* (left,top) with left = xmin*W/416, right = xmax*W/416, top = ymin*H/416,
\* bottom = ymax*H/416; an 832 x 832 image and box (10,20,110,120) give
\* left = 40, top = 20, right = 240, bottom = 220; boxes outside [0, 416] are
\* scaled the same way and end no call in an error.
C5_OutlineScaled ==
    /\ rnd.pc \in {"idle", "called", "loop", "returned"}
    /\ rnd.pc # "idle" =>
        \A j \in 1..Len(rnd.drawn) :
            /\ IsOutline(rnd.drawn[j].line.points, BoxOf(j), rnd.image[1], rnd.image[2])
            /\ (rnd.image = <<832, 832>> /\ BoxOf(j) = <<10, 20, 110, 120>>) =>
                  rnd.drawn[j].line.points =
                      <<<<Px(40), Px(20)>>, <<Px(40), Px(220)>>, <<Px(240), Px(220)>>,
                        <<Px(240), Px(20)>>, <<Px(40), Px(20)>>>>

\* draw_boxes returned after drawing, second, the example box on an 832 x 832
\* image and, first, a box that lies outside the canvas
C5_Witness ==
    /\ rnd.pc = "returned" /\ rnd.fn = "draw_boxes"
    /\ rnd.image = <<832, 832>>
    /\ Len(rnd.drawn) = 2
    /\ rnd.boxes = <<<<-8, -4, 420, 500>>, <<10, 20, 110, 120>>>>
    /\ rnd.drawn[2].line.points[1] = <<Px(40), Px(20)>>

\* C6: the label text of every detection is "{label}: {p}%" with p the
\* nearest integer to score*100 (0.876 is shown as 88%).
C6_LabelRoundsScore ==
    (rnd.pc # "idle" /\ rnd.fn = "draw_boxes") =>
        \A j \in 1..Len(rnd.drawn) :
            LET p == rnd.drawn[j].labels[1].text.pct
                d == 1000 * p - 100 * rnd.scores[j]
            IN /\ rnd.drawn[j].labels[1].text.class_ = rnd.classes[j]
               /\ -500 <= d /\ d <= 500

\* C7: one call of draw_boxes over n detections performs exactly n drawing
\* steps, the i-th one drawing the i-th detection's own box, score and label,
\* none skipped, repeated or out of order; with n = 0 nothing is drawn and the
\* image is returned as opened.
C7_EachDetectionDrawnOnce ==
    (rnd.pc # "idle" /\ rnd.fn = "draw_boxes") =>
        /\ Len(rnd.drawn) = rnd.index
        /\ rnd.index <= Len(rnd.classes)
        /\ rnd.pc = "returned" => Len(rnd.drawn) = Len(rnd.classes)
        /\ \A i \in 1..Len(rnd.drawn) :
              /\ IsOutline(rnd.drawn[i].line.points, rnd.boxes[i],
                           rnd.image[1], rnd.image[2])
              /\ Len(rnd.drawn[i].labels) = 1
              /\ rnd.drawn[i].labels[1].text =
                    [class_ |-> rnd.classes[i], pct |-> (100 * rnd.scores[i]) \div 1000]
              /\ rnd.drawn[i].labels[1].fill = rnd.drawn[i].line.fill

\* draw_boxes returned after drawing two detections of different boxes,
\* scores and labels
C7_Witness ==
    /\ rnd.pc = "returned" /\ rnd.fn = "draw_boxes"
    /\ Len(rnd.classes) = 2 /\ Len(rnd.drawn) = 2
    /\ rnd.boxes[1] # rnd.boxes[2]
    /\ rnd.scores[1] # rnd.scores[2]
    /\ rnd.classes[1] # rnd.classes[2]

\* C8: with a single display string, for every box whose scaled top edge is
\* >= 0 and every text height >= 1, the filled label rectangle does not extend
\* above the image: its upper edge text_bottom - th - 2*ceil(0.05*th) is >= 0.
C8_LabelNeverAboveImage ==
    rnd.pc # "idle" =>
        \A j \in 1..Len(rnd.drawn) :
            (Len(rnd.drawn[j].labels) = 1 /\ rnd.drawn[j].line.points[1][2] >= 0) =>
                rnd.drawn[j].labels[1].rect_top >= 0

\* C10: with two or more display strings the filled rectangles of successive
\* strings do not overlap: each later rectangle's lower edge is at or above the
\* previous rectangle's upper edge.
C10_LabelsDoNotOverlap ==
    rnd.pc # "idle" =>
        \A j \in 1..Len(rnd.drawn) :
            \A n \in 2..Len(rnd.drawn[j].labels) :
                rnd.drawn[j].labels[n].rect_bottom <= rnd.drawn[j].labels[n - 1].rect_top

Init == InitLetterbox \/ InitDecode \/ InitRender
Next == NextLetterbox \/ NextDecode \/ NextRender
Spec == Init /\ [][Next]_vars
====
